---- MODULE Spec2Model ----
(***************************************************************************)
(* Model of the Ion Hash test driver: the corpus builder of                *)
(* ionhashtest/test_data.py (the permutation generator test_strings_for    *)
(* and the two corpus pipelines) and the digest classifier of              *)
(* ionhashtest/ion_hash_test_driver.py (generate_results and               *)
(* compare_digests).                                                       *)
(*                                                                         *)
(* Text is modelled as a sequence of characters.  A character is a         *)
(* one-character string, except that the grave accent is written "U+0060" *)
(* and the one non-ASCII character used, e with acute, "U+00E9".           *)
(***************************************************************************)
EXTENDS Integers, Sequences, FiniteSets, TLC

VARIABLES
    \* ---- corpus builder (test_data.py) ----
    cpc,          \* position of the running pipeline
    pipeline,     \* "structured" or "raw"
    tests,        \* structured pipeline: the decoded test definitions
    lines,        \* raw pipeline: the seed lines of the file
    ci,           \* number of definitions / seed lines taken so far
    strings,      \* raw pipeline: test_strings_for(line) of the current line
    cj,           \* raw pipeline: number of variants of `strings` handled
    calls,        \* raw pipeline: the seed lines passed to test_strings_for
    text_file,    \* entries written to the text stream, in order
    binary_file,  \* entries written to the binary stream, in order
    \* ---- digest classifier (ion_hash_test_driver.py) ----
    pc,           \* position inside generate_results
    impls,        \* parameter impls: implementation names, in order
    test_files,   \* parameter test_files: corpus file names, in order
    corpus,       \* corpus[f]: the TestValues decoded from test file f
    fi,           \* index of the test file being processed
    ti,           \* number of TestValues of the file already classified
    opened,       \* number of entries put into hash_files so far
    hash_files,   \* impl name -> handle of its digest file
    line_read,    \* compare_digests: impl name -> line returned by readline()
    digests,      \* compare_digests: impl name -> digest, being filled
    digest_comparisons, \* records of the current file
    file_counters,      \* defaultdict(int) of the current file
    counters,           \* defaultdict(int) of the run
    files,              \* report: file name -> {tests, file_summary}
    results,            \* the report written to the results file; {} before
    error,              \* the exception that ended generate_results, or "none"
    \* ---- command line driver (ion_hash_test_driver.py) ----
    dpc,                \* position inside ion_hash_test_driver
    arguments,          \* the parsed command line
    executables,        \* environment: the paths that run as a program
    output_root,        \* environment: TRUE when the output directory exists
    tool_dependencies,  \* the global TOOL_DEPENDENCIES: tool name -> path
    implementations,    \* IonHashImplementation objects, by name, in order
    installed,          \* names of the resources whose install() returned
    di,                 \* index into implementations of the running loop
    test_source,        \* environment: the source files of the installed
                        \* ion-hash-test, each [present, content]
    written,            \* corpus file name -> the stream written to it
    hashes,             \* impl name -> (corpus file name -> digest lines)
    generated,          \* the file names generate_tests returned
    trace,              \* the steps of the run performed so far, in order
    outcome             \* "running", "ok", "exit 1" or the exception raised

corpusVars == <<cpc, pipeline, tests, lines, ci, strings, cj, calls,
                text_file, binary_file>>
resultVars == <<pc, impls, test_files, corpus, fi, ti, opened, hash_files,
                line_read, digests, digest_comparisons, file_counters, counters, files,
                results, error>>
driverVars == <<dpc, arguments, executables, output_root, tool_dependencies,
                implementations, installed, di, test_source, written, hashes,
                generated, trace, outcome>>
vars == <<corpusVars, resultVars, driverVars>>

----------------------------------------------------------------------------
(* Characters, bytes and text helpers                                      *)

\* The printable ASCII characters, code points 32..126, in order.
AsciiPrintable ==
    << " ", "!", "\"", "#", "$", "%", "&", "'", "(", ")", "*", "+", ",", "-",
       ".", "/", "0", "1", "2", "3", "4", "5", "6", "7", "8", "9", ":", ";",
       "<", "=", ">", "?", "@", "A", "B", "C", "D", "E", "F", "G", "H", "I",
       "J", "K", "L", "M", "N", "O", "P", "Q", "R", "S", "T", "U", "V", "W",
       "X", "Y", "Z", "[", "\\", "]", "^", "_", "U+0060", "a", "b", "c", "d", "e",
       "f", "g", "h", "i", "j", "k", "l", "m", "n", "o", "p", "q", "r", "s",
       "t", "u", "v", "w", "x", "y", "z", "{", "|", "}", "~" >>

\* ord(c)
Ord(c) ==
    IF c = "U+00E9" THEN 233
    ELSE IF c = "\n" THEN 10
    ELSE 31 + (CHOOSE i \in 1..Len(AsciiPrintable) : AsciiPrintable[i] = c)

\* chr(b) for a byte below 128
Chr(b) == AsciiPrintable[b - 31]

\* str.encode('utf-8') of one character
Utf8Char(c) ==
    LET cp == Ord(c) IN
    IF cp < 128 THEN << cp >>
    ELSE IF cp < 2048 THEN << 192 + (cp \div 64), 128 + (cp % 64) >>
    ELSE << 224 + (cp \div 4096), 128 + ((cp \div 64) % 64), 128 + (cp % 64) >>

RECURSIVE Utf8(_)
\* str.encode('utf-8')
Utf8(s) == IF s = << >> THEN << >> ELSE Utf8Char(Head(s)) \o Utf8(Tail(s))

HexDigits ==
    << "0", "1", "2", "3", "4", "5", "6", "7", "8", "9", "a", "b", "c", "d",
       "e", "f" >>

RECURSIVE Hex(_)
\* '{0:x}'.format(b)
Hex(b) == IF b < 16 THEN << HexDigits[b + 1] >>
          ELSE Hex(b \div 16) \o << HexDigits[(b % 16) + 1] >>

Base64Alphabet ==
    << "A", "B", "C", "D", "E", "F", "G", "H", "I", "J", "K", "L", "M", "N",
       "O", "P", "Q", "R", "S", "T", "U", "V", "W", "X", "Y", "Z", "a", "b",
       "c", "d", "e", "f", "g", "h", "i", "j", "k", "l", "m", "n", "o", "p",
       "q", "r", "s", "t", "u", "v", "w", "x", "y", "z", "0", "1", "2", "3",
       "4", "5", "6", "7", "8", "9", "+", "/" >>

B64(n) == Base64Alphabet[n + 1]

RECURSIVE Base64Encode(_)
\* base64.b64encode(bytes).decode('utf-8')
Base64Encode(bs) ==
    IF Len(bs) = 0 THEN << >>
    ELSE IF Len(bs) = 1 THEN
        << B64(bs[1] \div 4), B64((bs[1] % 4) * 16), "=", "=" >>
    ELSE IF Len(bs) = 2 THEN
        << B64(bs[1] \div 4), B64((bs[1] % 4) * 16 + (bs[2] \div 16)),
           B64((bs[2] % 16) * 4), "=" >>
    ELSE
        << B64(bs[1] \div 4), B64((bs[1] % 4) * 16 + (bs[2] \div 16)),
           B64((bs[2] % 16) * 4 + (bs[3] \div 64)), B64(bs[3] % 64) >>
        \o Base64Encode(SubSeq(bs, 4, Len(bs)))

\* {} : a dict without keys
EmptyDict == [k \in {} |-> 0]

\* d[k] = v on a dict
Put(d, k, v) == [x \in DOMAIN d \cup {k} |-> IF x = k THEN v ELSE d[x]]

\* s.startswith(p)
StartsWith(s, p) == Len(s) >= Len(p) /\ SubSeq(s, 1, Len(p)) = p

\* s[n:]
DropPrefix(s, n) == SubSeq(s, n + 1, Len(s))

\* sub in s
Contains(s, sub) ==
    \E i \in 1..(Len(s) - Len(sub) + 1) : SubSeq(s, i, i + Len(sub) - 1) = sub

RECURSIVE Replace(_, _, _)
\* s.replace(old, new) for a one-character old
Replace(s, old, new) ==
    IF s = << >> THEN << >>
    ELSE (IF Head(s) = old THEN new ELSE << Head(s) >>)
         \o Replace(Tail(s), old, new)

----------------------------------------------------------------------------
(* The permutation generator: _TestValue and test_strings_for              *)

_ion_prefix == << "i", "o", "n", ":", ":" >>
_invalid_ion_prefix ==
    << "i", "n", "v", "a", "l", "i", "d", "_", "i", "o", "n", ":", ":" >>

\* The forbidden sentinel '$0'
SidZero == << "$", "0" >>

\* _TestValue.__init__: valid_ion is "None", "True" or "False"
TestValue(string) ==
    LET v1   == IF StartsWith(string, _ion_prefix) THEN "True" ELSE "None"
        ion1 == IF StartsWith(string, _ion_prefix)
                THEN DropPrefix(string, Len(_ion_prefix)) ELSE string
        v2   == IF StartsWith(ion1, _invalid_ion_prefix) THEN "False" ELSE v1
        ion2 == IF StartsWith(ion1, _invalid_ion_prefix)
                THEN DropPrefix(ion1, Len(_invalid_ion_prefix)) ELSE ion1
    IN  [ion |-> ion2, valid_ion |-> v2]

\* Python truth value of tv.valid_ion (None and False are both falsy)
Truthy(valid_ion) == valid_ion = "True"

symbol(tv) ==
    << "'" >>
    \o Replace(Replace(tv.ion, "\\", << "\\", "\\" >>), "'", << "\\", "'" >>)
    \o << "'" >>

string(tv) ==
    << "\"" >>
    \o Replace(Replace(tv.ion, "\\", << "\\", "\\" >>), "\"", << "\\", "\"" >>)
    \o << "\"" >>

long_string(tv) ==
    << "'", "'", "'" >>
    \o Replace(Replace(tv.ion, "\\", << "\\", "\\" >>), "'", << "\\", "'" >>)
    \o << "'", "'", "'" >>

RECURSIVE EscapeBytes(_)
\* ''.join('\\x{0:x}'.format(b) if b >= 128 else chr(b) for b in bytes)
EscapeBytes(bs) ==
    IF bs = << >> THEN << >>
    ELSE (IF Head(bs) >= 128 THEN << "\\", "x" >> \o Hex(Head(bs))
          ELSE << Chr(Head(bs)) >>)
         \o EscapeBytes(Tail(bs))

clob(tv) == << "{", "{" >> \o EscapeBytes(Utf8(string(tv))) \o << "}", "}" >>

blob(tv) == << "{", "{" >> \o Base64Encode(Utf8(tv.ion)) \o << "}", "}" >>

ColonColon == << ":", ":" >>

\* The five base encodings, in the order test_strings_for appends them
BaseEncodings(tv) ==
    << symbol(tv), string(tv), long_string(tv), clob(tv), blob(tv) >>

\* Mutant of ValidForms: the raw forms are appended unless the seed is marked
\* invalid (valid_ion is not False), instead of only when it is truthy
ValidFormsUnlessInvalid(tv) ==
    IF tv.valid_ion # "False" THEN
      << tv.ion,
         symbol(tv) \o ColonColon \o tv.ion,
         symbol(tv) \o ColonColon \o << "{" >> \o symbol(tv) \o << ":" >>
             \o tv.ion \o << "}" >>,
         symbol(tv) \o ColonColon \o << "{" >> \o symbol(tv) \o << ":" >>
             \o symbol(tv) \o ColonColon \o tv.ion \o << "}" >> >>
    ELSE << >>

\* test_strings_for, the variants appended only when tv.valid_ion is truthy
ValidForms(tv) ==
    IF Truthy(tv.valid_ion) THEN
      << tv.ion,
         symbol(tv) \o ColonColon \o tv.ion,
         symbol(tv) \o ColonColon \o << "{" >> \o symbol(tv) \o << ":" >>
             \o tv.ion \o << "}" >>,
         symbol(tv) \o ColonColon \o << "{" >> \o symbol(tv) \o << ":" >>
             \o symbol(tv) \o ColonColon \o tv.ion \o << "}" >> >>
    ELSE << >>

\* test_strings_for, "# list"
ListForm(tv) ==
    symbol(tv) \o ColonColon \o << "[" >>
    \o symbol(tv) \o << ",", " " >>
    \o string(tv) \o << ",", " " >>
    \o long_string(tv) \o << ",", " " >>
    \o clob(tv) \o << ",", " " >>
    \o blob(tv) \o << ",", " " >>
    \o (IF Truthy(tv.valid_ion) THEN tv.ion ELSE << >>)
    \o << "]" >>

\* test_strings_for, "# sexp"
SexpForm(tv) ==
    symbol(tv) \o ColonColon \o << "(" >>
    \o symbol(tv) \o << " " >>
    \o string(tv) \o << " " >>
    \o long_string(tv) \o << " " >>
    \o clob(tv) \o << " " >>
    \o blob(tv) \o << " " >>
    \o (IF Truthy(tv.valid_ion) THEN tv.ion ELSE << >>)
    \o << ")" >>

\* test_strings_for, "# multiple annotations"
MultiAnnotated(tv) ==
    symbol(tv) \o ColonColon \o symbol(tv) \o ColonColon \o symbol(tv)
    \o ColonColon \o string(tv)

test_strings_for(line) ==
    LET tv   == TestValue(line)
        base == BaseEncodings(tv)
    IN  base
        \o [k \in 1..5 |-> symbol(tv) \o ColonColon \o base[k]]
        \o [k \in 1..5 |-> symbol(tv) \o ColonColon \o << "{" >> \o symbol(tv)
                              \o << ":" >> \o base[k] \o << "}" >>]
        \o ValidForms(tv)
        \o << ListForm(tv), SexpForm(tv), MultiAnnotated(tv) >>

----------------------------------------------------------------------------
(* Ion values as the structured pipeline sees them, and ion.dumps          *)

\* SymbolToken(text, sid): the symbol $0 has no text and sid 0
Token(t)          == [has_text |-> TRUE, text |-> t, sid |-> -1]
TokenZero         == [has_text |-> FALSE, text |-> << >>, sid |-> 0]

IonInt(n)         == [type |-> "int", ann |-> << >>, val |-> n]
IonString(t)      == [type |-> "string", ann |-> << >>, val |-> t]
IonSymbol(tok)    == [type |-> "symbol", ann |-> << >>, val |-> tok]
IonList(vs)       == [type |-> "list", ann |-> << >>, val |-> vs]
IonSexp(vs)       == [type |-> "sexp", ann |-> << >>, val |-> vs]
IonClob(bs)       == [type |-> "clob", ann |-> << >>, val |-> bs]
IonBlob(bs)       == [type |-> "blob", ann |-> << >>, val |-> bs]
IonNull           == [type |-> "null", ann |-> << >>, val |-> 0]
\* a struct is the sequence of its fields, each [name |-> token, value |-> v]
IonStruct(fs)     == [type |-> "struct", ann |-> << >>, val |-> fs]
Annotated(tok, v) == [v EXCEPT !.ann = << tok >> \o v.ann]

Digit(n) == AsciiPrintable[n + 17]

RECURSIVE Decimal(_)
Decimal(n) == IF n < 10 THEN << Digit(n) >>
              ELSE Decimal(n \div 10) \o << Digit(n % 10) >>

IsLetter(c) == Ord(c) \in (65..90) \cup (97..122) \cup {95}

IsDigit(c) == Ord(c) \in 48..57

\* The code points of a text
CodePoints(t) == [k \in 1..Len(t) |-> Ord(t[k])]

\* '%02x' % b
Hex2(b) == << HexDigits[(b \div 16) + 1], HexDigits[(b % 16) + 1] >>

RECURSIVE BytesText(_, _)
\* The text writer's escaping of code points between quotes: the quote in
\* use and the backslash are escaped, printable ASCII is kept, any other
\* code point up to 0xFF is written \xNN
BytesText(cps, quote) ==
    IF cps = << >> THEN << >>
    ELSE (IF Head(cps) = Ord(quote) THEN << "\\", quote >>
          ELSE IF Head(cps) = 92 THEN << "\\", "\\" >>
          ELSE IF Head(cps) \in 32..126 THEN << Chr(Head(cps)) >>
          ELSE << "\\", "x" >> \o Hex2(Head(cps)))
         \o BytesText(Tail(cps), quote)

\* Text of a symbol token: $0 without text, bare when an identifier, else quoted
SymbolText(tok) ==
    LET t == tok.text IN
    IF ~tok.has_text THEN << "$" >> \o Decimal(tok.sid)
    ELSE IF Len(t) > 0 /\ \A k \in 1..Len(t) : IsLetter(t[k]) THEN t
    ELSE << "'" >> \o BytesText(CodePoints(t), "'") \o << "'" >>

RECURSIVE AnnotationText(_)
AnnotationText(ann) ==
    IF ann = << >> THEN << >>
    ELSE SymbolText(Head(ann)) \o ColonColon \o AnnotationText(Tail(ann))

RECURSIVE IonDumpsText(_)
RECURSIVE IonDumpsTextAll(_)
RECURSIVE IonDumpsTextSexp(_)
RECURSIVE IonDumpsTextFields(_)
\* ion.dumps(value, binary=False, omit_version_marker=True)
IonDumpsText(v) ==
    AnnotationText(v.ann)
    \o CASE v.type = "int"    -> Decimal(v.val)
         [] v.type = "string" ->
                << "\"" >> \o BytesText(CodePoints(v.val), "\"") \o << "\"" >>
         [] v.type = "symbol" -> SymbolText(v.val)
         [] v.type = "list"   -> << "[" >> \o IonDumpsTextAll(v.val) \o << "]" >>
         [] v.type = "sexp"   -> << "(" >> \o IonDumpsTextSexp(v.val) \o << ")" >>
         [] v.type = "struct" ->
                << "{" >> \o IonDumpsTextFields(v.val) \o << "}" >>
         [] v.type = "clob"   ->
                << "{", "{", "\"" >> \o BytesText(v.val, "\"")
                \o << "\"", "}", "}" >>
         [] v.type = "blob"   ->
                << "{", "{" >> \o Base64Encode(v.val) \o << "}", "}" >>
         [] v.type = "null"   -> << "n", "u", "l", "l" >>

IonDumpsTextAll(vs) ==
    IF vs = << >> THEN << >>
    ELSE IF Len(vs) = 1 THEN IonDumpsText(vs[1])
    ELSE IonDumpsText(vs[1]) \o << "," >> \o IonDumpsTextAll(Tail(vs))

IonDumpsTextSexp(vs) ==
    IF vs = << >> THEN << >>
    ELSE IF Len(vs) = 1 THEN IonDumpsText(vs[1])
    ELSE IonDumpsText(vs[1]) \o << " " >> \o IonDumpsTextSexp(Tail(vs))

IonDumpsTextFields(fs) ==
    IF fs = << >> THEN << >>
    ELSE SymbolText(fs[1].name) \o << ":" >> \o IonDumpsText(fs[1].value)
         \o (IF Len(fs) = 1 THEN << >>
             ELSE << "," >> \o IonDumpsTextFields(Tail(fs)))

\* ion.dumps(obj, binary=True): the version marker followed by the canonical
\* encoding of the value obj stands for; the encoding of a value is
\* represented by the value itself
IonDumpsBinary(v) == [ivm |-> TRUE, datum |-> v]

\* The Ion value a Python str stands for when handed to ion.dumps
PyStr(text) == IonString(text)

\* sexp_to_bytearray
sexp_to_bytearray(sexp) == [k \in 1..Len(sexp) |-> sexp[k]]

\* Mutant of HasSidZero: test_text.startswith('$0') instead of '$0' in test_text
HasSidZeroAtStart(test_text) == StartsWith(test_text, SidZero)

\* '$0' in test_text
HasSidZero(test_text) == Contains(test_text, SidZero)

----------------------------------------------------------------------------
(* simpleion.loads: the reader of the text and binary the pipelines write  *)

\* chr(cp) for the code points of the model's alphabet
CharOf(cp) == IF cp = 233 THEN "U+00E9" ELSE Chr(cp)

Chars(cps) == [k \in 1..Len(cps) |-> CharOf(cps[k])]

IsHexDigit(c) == \E k \in 1..16 : HexDigits[k] = c

HexVal(c) == (CHOOSE k \in 1..16 : HexDigits[k] = c) - 1

\* s[i:].startswith(p), positions counted from 1
At(s, i, p) == i + Len(p) - 1 <= Len(s) /\ SubSeq(s, i, i + Len(p) - 1) = p

RECURSIVE SkipWs(_, _)
SkipWs(s, i) ==
    IF i <= Len(s) /\ s[i] \in {" ", "\n"} THEN SkipWs(s, i + 1) ELSE i

RECURSIVE ReadQuoted(_, _, _, _)
\* The code points between position i and the closing quote, escapes
\* \\ \' \" and \xNN resolved; next is the position after the quote
ReadQuoted(s, i, close, acc) ==
    IF i > Len(s) THEN [ok |-> FALSE, cps |-> acc, next |-> i]
    ELSE IF At(s, i, close)
    THEN [ok |-> TRUE, cps |-> acc, next |-> i + Len(close)]
    ELSE IF s[i] = "\\" THEN
        IF i + 1 > Len(s) THEN [ok |-> FALSE, cps |-> acc, next |-> i]
        ELSE IF s[i + 1] = "x" THEN
            IF i + 3 <= Len(s) /\ IsHexDigit(s[i + 2]) /\ IsHexDigit(s[i + 3])
            THEN ReadQuoted(s, i + 4, close,
                            Append(acc, 16 * HexVal(s[i + 2]) + HexVal(s[i + 3])))
            ELSE [ok |-> FALSE, cps |-> acc, next |-> i]
        ELSE IF s[i + 1] \in {"\\", "'", "\""}
        THEN ReadQuoted(s, i + 2, close, Append(acc, Ord(s[i + 1])))
        ELSE [ok |-> FALSE, cps |-> acc, next |-> i]
    ELSE ReadQuoted(s, i + 1, close, Append(acc, Ord(s[i])))

RECURSIVE NatOf(_)
\* int(digits)
NatOf(ds) ==
    IF ds = << >> THEN 0
    ELSE 10 * NatOf(SubSeq(ds, 1, Len(ds) - 1)) + (Ord(ds[Len(ds)]) - 48)

IsIdStart(c) == IsLetter(c) \/ c = "$"
IsIdPart(c)  == IsLetter(c) \/ IsDigit(c) \/ c = "$"
IsB64(c)     == \E k \in 1..64 : Base64Alphabet[k] = c

\* Membership of a character in a named class of the reader
InClass(c, class) ==
    CASE class = "digit"  -> IsDigit(c)
      [] class = "id"     -> IsIdPart(c)
      [] class = "base64" -> IsB64(c) \/ c = "="

RECURSIVE ReadWhile(_, _, _)
\* The position after the run of characters of the class that starts at i
ReadWhile(s, i, class) ==
    IF i <= Len(s) /\ InClass(s[i], class) THEN ReadWhile(s, i + 1, class)
    ELSE i

B64Val(c) == (CHOOSE k \in 1..64 : Base64Alphabet[k] = c) - 1

RECURSIVE Base64Decode(_)
\* base64.b64decode
Base64Decode(t) ==
    IF Len(t) < 4 THEN << >>
    ELSE LET a == B64Val(t[1])
             b == B64Val(t[2])
         IN  (IF t[3] = "=" THEN << a * 4 + (b \div 16) >>
              ELSE IF t[4] = "="
              THEN << a * 4 + (b \div 16),
                      (b % 16) * 16 + (B64Val(t[3]) \div 4) >>
              ELSE << a * 4 + (b \div 16),
                      (b % 16) * 16 + (B64Val(t[3]) \div 4),
                      (B64Val(t[3]) % 4) * 64 + B64Val(t[4]) >>)
             \o Base64Decode(SubSeq(t, 5, Len(t)))

\* The outcome of reading one value: the value and the position after it
ReadFail == [ok |-> FALSE, v |-> IonNull, next |-> 0]
ReadOk(v, next) == [ok |-> TRUE, v |-> v, next |-> next]

\* The token an unquoted symbol text stands for: $<digits> is a symbol id
TokenOf(t) ==
    IF Len(t) >= 2 /\ t[1] = "$" /\ \A k \in 2..Len(t) : IsDigit(t[k])
    THEN [has_text |-> FALSE, text |-> << >>, sid |-> NatOf(Tail(t))]
    ELSE Token(t)

RECURSIVE ParseValue(_, _)
RECURSIVE ParseAfterSymbol(_, _, _)
RECURSIVE ParseSeq(_, _, _, _, _)
RECURSIVE ParseFields(_, _, _)

\* a symbol token was read up to position n: it annotates the value after a
\* '::' and is a symbol value otherwise
ParseAfterSymbol(s, tok, n) ==
    LET j == SkipWs(s, n) IN
    IF At(s, j, ColonColon) THEN
        LET r == ParseValue(s, j + 2) IN
        IF r.ok THEN ReadOk(Annotated(tok, r.v), r.next) ELSE ReadFail
    ELSE ReadOk(IonSymbol(tok), n)

\* "{{" was read: a clob when a double quote follows, a blob otherwise
ParseLob(s, i0) ==
    LET i == SkipWs(s, i0) IN
    IF i <= Len(s) /\ s[i] = "\"" THEN
        LET r == ReadQuoted(s, i + 1, << "\"" >>, << >>)
            j == SkipWs(s, r.next)
        IN  IF r.ok /\ At(s, j, << "}", "}" >>)
            THEN ReadOk(IonClob(r.cps), j + 2) ELSE ReadFail
    ELSE
        LET e == ReadWhile(s, i, "base64")
            j == SkipWs(s, e)
        IN  IF (e - i) % 4 = 0 /\ At(s, j, << "}", "}" >>)
            THEN ReadOk(IonBlob(Base64Decode(SubSeq(s, i, e - 1))), j + 2)
            ELSE ReadFail

\* the elements of a list (comma separated, a comma may precede the closing
\* bracket) or of a parenthesized sequence (whitespace separated)
ParseSeq(s, i0, close, comma, acc) ==
    LET i == SkipWs(s, i0) IN
    IF i > Len(s) THEN [ok |-> FALSE, vs |-> acc, next |-> i]
    ELSE IF s[i] = close THEN [ok |-> TRUE, vs |-> acc, next |-> i + 1]
    ELSE
        LET r == ParseValue(s, i)
            j == SkipWs(s, r.next)
        IN  IF ~r.ok \/ j > Len(s) THEN [ok |-> FALSE, vs |-> acc, next |-> i]
            ELSE IF ~comma THEN ParseSeq(s, j, close, comma, Append(acc, r.v))
            ELSE IF s[j] = ","
            THEN ParseSeq(s, j + 1, close, comma, Append(acc, r.v))
            ELSE IF s[j] = close
            THEN [ok |-> TRUE, vs |-> Append(acc, r.v), next |-> j + 1]
            ELSE [ok |-> FALSE, vs |-> acc, next |-> i]

\* the fields of a struct: name ':' value, comma separated
ParseFields(s, i0, acc) ==
    LET i == SkipWs(s, i0) IN
    IF i > Len(s) THEN [ok |-> FALSE, vs |-> acc, next |-> i]
    ELSE IF s[i] = "}" THEN [ok |-> TRUE, vs |-> acc, next |-> i + 1]
    ELSE
        LET quoted == s[i] \in {"'", "\""}
            q      == IF quoted THEN ReadQuoted(s, i + 1, << s[i] >>, << >>)
                      ELSE [ok |-> IsIdStart(s[i]), cps |-> << >>,
                            next |-> ReadWhile(s, i, "id")]
            name   == IF quoted THEN Token(Chars(q.cps))
                      ELSE TokenOf(SubSeq(s, i, q.next - 1))
            c      == SkipWs(s, q.next)
        IN  IF ~q.ok \/ c > Len(s) \/ s[c] # ":"
            THEN [ok |-> FALSE, vs |-> acc, next |-> i]
            ELSE
                LET r == ParseValue(s, c + 1)
                    j == SkipWs(s, r.next)
                    f == [name |-> name, value |-> r.v]
                IN  IF ~r.ok \/ j > Len(s)
                    THEN [ok |-> FALSE, vs |-> acc, next |-> i]
                    ELSE IF s[j] = ","
                    THEN ParseFields(s, j + 1, Append(acc, f))
                    ELSE IF s[j] = "}"
                    THEN [ok |-> TRUE, vs |-> Append(acc, f), next |-> j + 1]
                    ELSE [ok |-> FALSE, vs |-> acc, next |-> i]

\* one value of Ion text starting at or after position i0
ParseValue(s, i0) ==
    LET i == SkipWs(s, i0) IN
    IF i > Len(s) THEN ReadFail
    ELSE IF At(s, i, << "'", "'", "'" >>) THEN
        LET r == ReadQuoted(s, i + 3, << "'", "'", "'" >>, << >>) IN
        IF r.ok THEN ReadOk(IonString(Chars(r.cps)), r.next) ELSE ReadFail
    ELSE IF s[i] = "'" THEN
        LET r == ReadQuoted(s, i + 1, << "'" >>, << >>) IN
        IF r.ok THEN ParseAfterSymbol(s, Token(Chars(r.cps)), r.next)
        ELSE ReadFail
    ELSE IF s[i] = "\"" THEN
        LET r == ReadQuoted(s, i + 1, << "\"" >>, << >>) IN
        IF r.ok THEN ReadOk(IonString(Chars(r.cps)), r.next) ELSE ReadFail
    ELSE IF At(s, i, << "{", "{" >>) THEN ParseLob(s, i + 2)
    ELSE IF s[i] = "{" THEN
        LET r == ParseFields(s, i + 1, << >>) IN
        IF r.ok THEN ReadOk(IonStruct(r.vs), r.next) ELSE ReadFail
    ELSE IF s[i] = "[" THEN
        LET r == ParseSeq(s, i + 1, "]", TRUE, << >>) IN
        IF r.ok THEN ReadOk(IonList(r.vs), r.next) ELSE ReadFail
    ELSE IF s[i] = "(" THEN
        LET r == ParseSeq(s, i + 1, ")", FALSE, << >>) IN
        IF r.ok THEN ReadOk(IonSexp(r.vs), r.next) ELSE ReadFail
    ELSE IF IsDigit(s[i]) THEN
        LET e == ReadWhile(s, i, "digit") IN
        ReadOk(IonInt(NatOf(SubSeq(s, i, e - 1))), e)
    ELSE IF IsIdStart(s[i]) THEN
        LET e == ReadWhile(s, i, "id")
            t == SubSeq(s, i, e - 1)
        IN  IF t = << "n", "u", "l", "l" >> THEN ReadOk(IonNull, e)
            ELSE ParseAfterSymbol(s, TokenOf(t), e)
    ELSE ReadFail

RECURSIVE ParseAll(_, _, _)
\* every top-level value of a text
ParseAll(s, i0, acc) ==
    LET i == SkipWs(s, i0) IN
    IF i > Len(s) THEN [ok |-> TRUE, values |-> acc]
    ELSE LET Rest(r) == IF r.ok THEN ParseAll(s, r.next, Append(acc, r.v))
                        ELSE [ok |-> FALSE, values |-> acc]
         IN  Rest(ParseValue(s, i))

\* The binary version marker E0 01 00 EA
IonVersionMarker == << 224, 1, 0, 234 >>

\* The texts of the system symbols, by symbol id
SystemSymbols ==
    << << "$", "i", "o", "n" >>,
       << "$", "i", "o", "n", "_", "1", "_", "0" >>,
       << "$", "i", "o", "n", "_", "s", "y", "m", "b", "o", "l", "_",
          "t", "a", "b", "l", "e" >>,
       << "n", "a", "m", "e" >>,
       << "v", "e", "r", "s", "i", "o", "n" >>,
       << "i", "m", "p", "o", "r", "t", "s" >>,
       << "s", "y", "m", "b", "o", "l", "s" >>,
       << "m", "a", "x", "_", "i", "d" >>,
       << "$", "i", "o", "n", "_", "s", "h", "a", "r", "e", "d", "_",
          "s", "y", "m", "b", "o", "l", "_", "t", "a", "b", "l", "e" >> >>

RECURSIVE Magnitude(_)
\* the unsigned big-endian integer of a byte sequence
Magnitude(bs) ==
    IF bs = << >> THEN 0
    ELSE 256 * Magnitude(SubSeq(bs, 1, Len(bs) - 1)) + bs[Len(bs)]

RECURSIVE DecodeBytes(_, _, _)
\* every top-level value of literal binary Ion: version markers, null,
\* non-negative ints, symbols of the system table and ASCII strings, each with
\* a length below 14; any other byte, or a value cut short, is an error
DecodeBytes(bs, i, acc) ==
    IF i > Len(bs) THEN [ok |-> TRUE, values |-> acc]
    ELSE IF At(bs, i, IonVersionMarker) THEN DecodeBytes(bs, i + 4, acc)
    ELSE
        LET t    == bs[i] \div 16
            l    == bs[i] % 16
            body == SubSeq(bs, i + 1, i + l)
        IN  IF bs[i] = 15 THEN DecodeBytes(bs, i + 1, Append(acc, IonNull))
            ELSE IF l >= 14 \/ i + l > Len(bs)
            THEN [ok |-> FALSE, values |-> acc]
            ELSE IF t = 2
            THEN DecodeBytes(bs, i + 1 + l, Append(acc, IonInt(Magnitude(body))))
            ELSE IF t = 7 /\ Magnitude(body) = 0
            THEN DecodeBytes(bs, i + 1 + l, Append(acc, IonSymbol(TokenZero)))
            ELSE IF t = 7 /\ Magnitude(body) <= Len(SystemSymbols)
            THEN DecodeBytes(bs, i + 1 + l,
                     Append(acc, IonSymbol(Token(SystemSymbols[Magnitude(body)]))))
            ELSE IF t = 8 /\ \A k \in 1..l : body[k] \in 32..126
            THEN DecodeBytes(bs, i + 1 + l, Append(acc, IonString(Chars(body))))
            ELSE [ok |-> FALSE, values |-> acc]

RECURSIVE IonLoadsText(_, _)
\* simpleion.loads(content, single_value=False) on a text stream
IonLoadsText(stream, acc) ==
    IF stream = << >> THEN [ok |-> TRUE, values |-> acc]
    ELSE LET Rest(r) == IF r.ok THEN IonLoadsText(Tail(stream), acc \o r.values)
                        ELSE [ok |-> FALSE, values |-> acc]
         IN  Rest(ParseAll(Head(stream).text, 1, << >>))

RECURSIVE IonLoadsBinary(_, _)
\* simpleion.loads(content, single_value=False) on a binary stream: what
\* ion.dumps wrote decodes to the value it encoded, literal bytes are decoded
IonLoadsBinary(stream, acc) ==
    IF stream = << >> THEN [ok |-> TRUE, values |-> acc]
    ELSE IF Head(stream).from = "10n" THEN
        LET Rest(r) == IF r.ok
                       THEN IonLoadsBinary(Tail(stream), acc \o r.values)
                       ELSE [ok |-> FALSE, values |-> acc]
        IN  Rest(DecodeBytes(Head(stream).bytes, 1, << >>))
    ELSE IonLoadsBinary(Tail(stream), Append(acc, Head(stream).bytes.datum))

----------------------------------------------------------------------------
(* Inputs of the corpus pipelines                                          *)

MaxDefs  == 2
MaxLines == 2

SeqsUpTo(S, n) == UNION { [1..k -> S] : k \in 0..n }

\* Inline values a test definition may carry under 'ion'
InlineValues ==
    { IonInt(7),
      IonString(<< "a" >>),
      IonString(SidZero),
      IonSymbol(Token(<< "a" >>)),
      IonSymbol(TokenZero),
      Annotated(TokenZero, IonInt(7)),
      IonList(<< IonInt(7), IonSymbol(TokenZero) >>) }

\* Byte sequences a test definition may carry under '10n'
LiteralBytes == { << 224, 1, 0, 234, 113, 0 >> }

\* A test definition is a struct with an optional 'ion' and an optional '10n'
TestDefs ==
    { [f \in {"ion"} |-> v] : v \in InlineValues }
    \cup { [f \in {"10n"} |-> b] : b \in LiteralBytes }
    \cup { [f \in {"ion", "10n"} |-> IF f = "ion" THEN v ELSE b] :
             v \in {IonInt(7), IonSymbol(TokenZero)}, b \in LiteralBytes }
    \cup { [f \in {"name"} |-> << "n" >>] }

\* Seed lines of big_list_of_naughty_strings.txt
SeedLines ==
    { << >>,
      << "#", "a" >>,
      << "a" >>,
      _ion_prefix \o << "a" >>,
      _invalid_ion_prefix \o << "a" >>,
      _ion_prefix \o _invalid_ion_prefix \o << "a" >>,
      SidZero,
      _ion_prefix \o SidZero,
      << "'", "\"", "\\", "U+00E9" >>,
      << "h", "e", "l", "l", "o" >>,
      << " " >> }

----------------------------------------------------------------------------
(* The corpus pipelines                                                    *)

TextEntry(item, test_text) == [item |-> item, text |-> test_text \o << "\n" >>]
BinaryEntry(item, from, bytes) == [item |-> item, from |-> from, bytes |-> bytes]

\* generate_tests_ion_hash_tests, the text written for one definition
StructuredText(k, test) ==
    IF "ion" \in DOMAIN test /\ ~HasSidZero(IonDumpsText(test["ion"]))
    THEN << TextEntry(<< k, 0 >>, IonDumpsText(test["ion"])) >>
    ELSE << >>

\* Mutant of StructuredBinary: the binary rendering is written outside the
\* "if not ('$0' in test_text)" block
StructuredBinaryUngated(k, test) ==
    (IF "ion" \in DOMAIN test
     THEN << BinaryEntry(<< k, 0 >>, "ion", IonDumpsBinary(test["ion"])) >>
     ELSE << >>)
    \o (IF "10n" \in DOMAIN test
        THEN << BinaryEntry(<< k, 0 >>, "10n", sexp_to_bytearray(test["10n"])) >>
        ELSE << >>)

\* generate_tests_ion_hash_tests, the binary written for one definition
StructuredBinary(k, test) ==
    (IF "ion" \in DOMAIN test /\ ~HasSidZero(IonDumpsText(test["ion"]))
     THEN << BinaryEntry(<< k, 0 >>, "ion", IonDumpsBinary(test["ion"])) >>
     ELSE << >>)
    \o (IF "10n" \in DOMAIN test
        THEN << BinaryEntry(<< k, 0 >>, "10n", sexp_to_bytearray(test["10n"])) >>
        ELSE << >>)

\* generate_tests_ion_hash_tests: one iteration of "for test in tests"
StructuredStep ==
    /\ cpc = "run" /\ pipeline = "structured" /\ ci < Len(tests)
    /\ text_file' = text_file \o StructuredText(ci + 1, tests[ci + 1])
    /\ binary_file' = binary_file \o StructuredBinary(ci + 1, tests[ci + 1])
    /\ ci' = ci + 1
    /\ UNCHANGED <<cpc, pipeline, tests, lines, strings, cj, calls>>
    /\ UNCHANGED <<resultVars, driverVars>>

\* Mutant of SkipLine: the 'invalid_ion::' prefix is not tested
SkipLineKeepsInvalid(line) ==
    IF line = << >> THEN TRUE
    ELSE line[1] = "#"

\* generate_tests_big_list_of_naughty_strings: the filter on a seed line
SkipLine(line) ==
    IF line = << >> THEN TRUE
    ELSE IF line[1] = "#" THEN TRUE
    ELSE StartsWith(line, _invalid_ion_prefix)

\* "for line in lines" reaches a line the filter rejects
RawSkipLine ==
    /\ cpc = "run" /\ pipeline = "raw" /\ cj = Len(strings) /\ ci < Len(lines)
    /\ SkipLine(lines[ci + 1])
    /\ ci' = ci + 1
    /\ strings' = << >> /\ cj' = 0
    /\ UNCHANGED <<cpc, pipeline, tests, lines, calls, text_file, binary_file>>
    /\ UNCHANGED <<resultVars, driverVars>>

\* "for line in lines" reaches a retained line: test_strings_for(line)
RawExpandLine ==
    /\ cpc = "run" /\ pipeline = "raw" /\ cj = Len(strings) /\ ci < Len(lines)
    /\ ~SkipLine(lines[ci + 1])
    /\ ci' = ci + 1
    /\ strings' = test_strings_for(lines[ci + 1]) /\ cj' = 0
    /\ calls' = Append(calls, lines[ci + 1])
    /\ UNCHANGED <<cpc, pipeline, tests, lines, text_file, binary_file>>
    /\ UNCHANGED <<resultVars, driverVars>>

\* generate_tests_big_list_of_naughty_strings, the text written for a variant
RawText(item, test_text) ==
    IF ~HasSidZero(test_text) THEN << TextEntry(item, test_text) >> ELSE << >>

\* generate_tests_big_list_of_naughty_strings, the binary written for a variant
RawBinary(item, test_text) ==
    IF ~HasSidZero(test_text)
    THEN << BinaryEntry(item, "variant", IonDumpsBinary(PyStr(test_text))) >>
    ELSE << >>

\* one iteration of "for test_text in test_strings_for(line)"
RawVariant ==
    /\ cpc = "run" /\ pipeline = "raw" /\ cj < Len(strings)
    /\ text_file' = text_file \o RawText(<< ci, cj + 1 >>, strings[cj + 1])
    /\ binary_file' = binary_file \o RawBinary(<< ci, cj + 1 >>, strings[cj + 1])
    /\ cj' = cj + 1
    /\ UNCHANGED <<cpc, pipeline, tests, lines, ci, strings, calls>>
    /\ UNCHANGED <<resultVars, driverVars>>

\* both pipelines: the loop is over, the files are closed and their names returned
CorpusReturn ==
    /\ cpc = "run"
    /\ \/ pipeline = "structured" /\ ci = Len(tests)
       \/ pipeline = "raw" /\ ci = Len(lines) /\ cj = Len(strings)
    /\ cpc' = "done"
    /\ UNCHANGED <<pipeline, tests, lines, ci, strings, cj, calls, text_file,
                   binary_file>>
    /\ UNCHANGED <<resultVars, driverVars>>

\* A source file that does not exist, and one holding `content`
Absent == [present |-> FALSE, content |-> << >>]
Present(content) == [present |-> TRUE, content |-> content]

\* The global TOOL_DEPENDENCIES as config.py defines it
TOOL_DEPENDENCIES == [name \in {"git"} |-> "git"]

\* The driver's variables while only a pipeline or the classifier runs
DriverIdle ==
    /\ dpc = "idle"
    /\ arguments = [help |-> FALSE, list |-> FALSE, git |-> "None",
                    test_file |-> {}]
    /\ executables = {} /\ output_root = FALSE
    /\ tool_dependencies = TOOL_DEPENDENCIES
    /\ implementations = << >> /\ installed = {} /\ di = 0
    /\ test_source = [tests |-> Absent, lines |-> Absent]
    /\ written = EmptyDict /\ hashes = EmptyDict
    /\ generated = << >> /\ trace = << >> /\ outcome = "running"

\* The classifier's variables while only the corpus builder runs
ResultsIdle ==
    /\ pc = "idle" /\ impls = << >> /\ test_files = << >> /\ corpus = << >>
    /\ fi = 0 /\ ti = 0 /\ opened = 0 /\ hash_files = EmptyDict
    /\ line_read = EmptyDict /\ digests = EmptyDict
    /\ digest_comparisons = << >> /\ file_counters = EmptyDict
    /\ counters = EmptyDict /\ files = EmptyDict
    /\ results = EmptyDict /\ error = "none"

CorpusInit ==
    /\ cpc = "run"
    /\ pipeline \in {"structured", "raw"}
    /\ tests \in SeqsUpTo(TestDefs, MaxDefs)
    /\ lines \in SeqsUpTo(SeedLines, MaxLines)
    /\ pipeline = "structured" => lines = << >>
    /\ pipeline = "raw" => tests = << >>
    /\ ci = 0 /\ strings = << >> /\ cj = 0 /\ calls = << >>
    /\ text_file = << >> /\ binary_file = << >>
    /\ ResultsIdle
    /\ DriverIdle

CorpusNext ==
    \/ StructuredStep
    \/ RawSkipLine
    \/ RawExpandLine
    \/ RawVariant
    \/ CorpusReturn

SpecCorpus == CorpusInit /\ [][CorpusNext]_vars

----------------------------------------------------------------------------
(* Properties of the corpus builder                                        *)

\* The texts the entries of source k are produced from: for definition k its
\* rendered inline value, for seed line k the variants of that line
SourceTexts(k) ==
    IF pipeline = "structured"
    THEN (IF "ion" \in DOMAIN tests[k]
          THEN << IonDumpsText(tests[k]["ion"]) >> ELSE << >>)
    ELSE (IF SkipLine(lines[k]) THEN << >> ELSE test_strings_for(lines[k]))

NumSources == IF pipeline = "structured" THEN Len(tests) ELSE Len(lines)

\* The text, among those of its source, the entry of item <<k, j>> comes from
SourceText(texts, item) == texts[IF item[2] = 0 THEN 1 ELSE item[2]]

\* The entries of the binary stream that do not come from a '10n' byte sequence
RenderedBinary == SelectSeq(binary_file, LAMBDA e : e.from # "10n")

ItemsOf(stream) == { stream[k].item : k \in 1..Len(stream) }

\* C3: at every point of either pipeline, no entry of the text stream and no
\* rendered entry of the binary stream comes from a text containing '$0', and
\* the two streams hold entries of the same source items (a dropped variant is
\* missing from both).
C3_NoSidZeroInEitherStream ==
    LET bin == RenderedBinary
    IN  /\ \A i \in 1..NumSources :
             LET texts == SourceTexts(i) IN
             /\ \A k \in 1..Len(text_file) :
                  text_file[k].item[1] = i =>
                      ~Contains(SourceText(texts, text_file[k].item), SidZero)
             /\ \A k \in 1..Len(bin) :
                  bin[k].item[1] = i =>
                      ~Contains(SourceText(texts, bin[k].item), SidZero)
        /\ ItemsOf(text_file) = ItemsOf(bin)

\* C3 witness: the raw pipeline has finished the seed '$0', whose only variant
\* without '$0' is the blob, and wrote exactly that one to both streams.
C3_Witness ==
    /\ cpc = "done" /\ pipeline = "raw" /\ lines = << SidZero >>
    /\ Len(text_file) = 1 /\ Len(binary_file) = 1
    /\ text_file[1].item = << 1, 5 >>

\* C4: after every iteration of either pipeline, the binary stream without its
\* '10n' entries has as many entries as the text stream has lines, and the
\* k-th of them comes from the same source item as the k-th text line.
C4_StreamsAgree ==
    LET bin == RenderedBinary
    IN  /\ Len(bin) = Len(text_file)
        /\ \A k \in 1..Len(text_file) : bin[k].item = text_file[k].item

\* C4 witness: the structured pipeline has finished a corpus with a dropped
\* inline value, a kept one and a literal byte sequence.
C4_Witness ==
    /\ cpc = "done" /\ pipeline = "structured" /\ Len(tests) = 2
    /\ Len(text_file) = 1
    /\ Len(binary_file) = 2
    /\ \E k \in 1..2 : binary_file[k].from = "10n"
    /\ \E k \in 1..2 : /\ "ion" \in DOMAIN tests[k]
                       /\ Contains(IonDumpsText(tests[k]["ion"]), SidZero)

RECURSIVE QuotedEnd(_, _)
\* Index of the quote closing the quoted symbol whose body starts at s[i]
QuotedEnd(s, i) ==
    IF i > Len(s) THEN i
    ELSE IF s[i] = "\\" THEN QuotedEnd(s, i + 2)
    ELSE IF s[i] = "'" THEN i
    ELSE QuotedEnd(s, i + 1)

RECURSIVE DenotedType(_)
\* The type of the top-level value an Ion text line denotes, read from its
\* leading characters after any quoted-symbol annotations
DenotedType(text) ==
    IF text = << >> THEN "none"
    ELSE IF StartsWith(text, << "'", "'", "'" >>) THEN "string"
    ELSE IF text[1] = "'" THEN
        LET e == QuotedEnd(text, 2) IN
        IF StartsWith(DropPrefix(text, e), ColonColon)
        THEN DenotedType(DropPrefix(text, e + 2))
        ELSE "symbol"
    ELSE IF text[1] = "\"" THEN "string"
    ELSE IF StartsWith(text, << "{", "{", "\"" >>) THEN "clob"
    ELSE IF StartsWith(text, << "{", "{" >>) THEN "blob"
    ELSE IF text[1] = "{" THEN "struct"
    ELSE IF text[1] = "[" THEN "list"
    ELSE IF text[1] = "(" THEN "sexp"
    ELSE "other"

\* C5: in the raw-string pipeline every binary entry encodes the value its
\* variant's text line denotes (a blob for the blob variant, a list for the
\* list variant, ...), not a string whose content is the variant's text.
C5_BinaryEncodesDenotedValue ==
    pipeline = "raw" =>
        \A i \in 1..NumSources :
            LET texts == SourceTexts(i) IN
            \A k \in 1..Len(binary_file) :
                binary_file[k].item[1] = i =>
                    LET text  == SourceText(texts, binary_file[k].item)
                        datum == binary_file[k].bytes.datum
                    IN  /\ datum.type = DenotedType(text)
                        /\ datum # IonString(text)

\* C10: the list test_strings_for returns has a fixed shape: the five base
\* encodings, their five annotated forms, their five one-field-struct forms,
\* the four raw forms only for a KnownValid seed, then the list literal, the
\* parenthesized sequence and the triple-annotated string: 18 variants, or 22
\* for a KnownValid seed.
C10_VariantListShape ==
    (pipeline = "raw" /\ strings # << >>) =>
        LET tv  == TestValue(lines[ci])
            sym == symbol(tv)
            n   == Len(strings)
            kv  == tv.valid_ion = "True"
        IN  /\ n = IF kv THEN 22 ELSE 18
            /\ SubSeq(strings, 1, 5)
                 = << sym, string(tv), long_string(tv), clob(tv), blob(tv) >>
            /\ \A k \in 1..5 : strings[5 + k] = sym \o ColonColon \o strings[k]
            /\ \A k \in 1..5 :
                   strings[10 + k] = sym \o ColonColon \o << "{" >> \o sym
                                     \o << ":" >> \o strings[k] \o << "}" >>
            /\ kv => /\ strings[16] = tv.ion
                     /\ strings[17] = sym \o ColonColon \o tv.ion
                     /\ strings[18] = sym \o ColonColon \o << "{" >> \o sym
                                      \o << ":" >> \o tv.ion \o << "}" >>
                     /\ strings[19] = sym \o ColonColon \o << "{" >> \o sym
                                      \o << ":" >> \o sym \o ColonColon
                                      \o tv.ion \o << "}" >>
            /\ StartsWith(strings[n - 2], sym \o ColonColon \o << "[" >> \o sym)
            /\ strings[n - 2][Len(strings[n - 2])] = "]"
            /\ StartsWith(strings[n - 1], sym \o ColonColon \o << "(" >> \o sym)
            /\ strings[n - 1][Len(strings[n - 1])] = ")"
            /\ strings[n] = sym \o ColonColon \o sym \o ColonColon \o sym
                            \o ColonColon \o string(tv)

\* C10 witness: a file with a seed of unknown validity and a KnownValid seed;
\* the second call returned 22 variants after the first returned 18.
C10_Witness ==
    /\ pipeline = "raw" /\ Len(calls) = 2 /\ Len(strings) = 22
    /\ TestValue(calls[1]).valid_ion = "None"
    /\ TestValue(calls[2]).valid_ion = "True"
    /\ Len(text_file) >= 18


RECURSIVE Join(_, _)
\* sep.join(elems) on a list of texts
Join(sep, elems) ==
    IF elems = << >> THEN << >>
    ELSE IF Len(elems) = 1 THEN elems[1]
    ELSE elems[1] \o sep \o Join(sep, Tail(elems))

\* The elements of the list literal and of the parenthesized sequence: the
\* five base encodings, then the raw form only for a KnownValid seed
Elements(tv) ==
    BaseEncodings(tv)
    \o (IF tv.valid_ion = "True" THEN << tv.ion >> ELSE << >>)

\* C11: the list-literal variant is the annotation, '::[', the elements
\* separated by ', ' and ']' directly after the last element; the
\* parenthesized variant is the same elements separated by single spaces with
\* ')' directly after the last element; for the seed 'hello' the list variant
\* ends with the blob followed at once by ']'.
C11_ListAndSexpWellFormed ==
    (pipeline = "raw" /\ strings # << >>) =>
        LET tv  == TestValue(lines[ci])
            sym == symbol(tv)
            n   == Len(strings)
        IN  /\ strings[n - 2] = sym \o ColonColon \o << "[" >>
                                \o Join(<< ",", " " >>, Elements(tv))
                                \o << "]" >>
            /\ strings[n - 1] = sym \o ColonColon \o << "(" >>
                                \o Join(<< " " >>, Elements(tv))
                                \o << ")" >>
            /\ lines[ci] = << "h", "e", "l", "l", "o" >> =>
                   strings[n - 2] =
                       << "'", "h", "e", "l", "l", "o", "'", ":", ":", "[",
                          "'", "h", "e", "l", "l", "o", "'", ",", " ",
                          "\"", "h", "e", "l", "l", "o", "\"", ",", " ",
                          "'", "'", "'", "h", "e", "l", "l", "o", "'", "'", "'",
                          ",", " " >>
                       \o clob(tv) \o << ",", " " >>
                       \o << "{", "{", "a", "G", "V", "s", "b", "G", "8", "=",
                             "}", "}", "]" >>

\* A seed line the raw-string pipeline ignores: the empty line, a comment
\* (first character '#') or a line prefixed 'invalid_ion::'
Ignored(line) ==
    \/ line = << >>
    \/ line # << >> /\ Head(line) = "#"
    \/ /\ Len(line) >= Len(_invalid_ion_prefix)
       /\ \A k \in 1..Len(_invalid_ion_prefix) : line[k] = _invalid_ion_prefix[k]

\* C14: in the raw-string pipeline, stepping over an ignored seed line leaves
\* both streams and the generator's call list unchanged, and at every point
\* the generator has been called exactly once for each of the other lines
\* read so far, in file order, and every stream entry comes from such a line.
C14_IgnoredLinesLeaveStreams ==
    /\ [][(pipeline = "raw" /\ ci' = ci + 1 /\ Ignored(lines[ci + 1]))
            => UNCHANGED <<text_file, binary_file, calls>>]_vars
    /\ [](pipeline = "raw" =>
            /\ calls = SelectSeq(SubSeq(lines, 1, ci), LAMBDA l : ~Ignored(l))
            /\ \A k \in 1..Len(text_file) :
                   ~Ignored(lines[text_file[k].item[1]])
            /\ \A k \in 1..Len(binary_file) :
                   ~Ignored(lines[binary_file[k].item[1]]))

\* C14 witness: a file of an 'invalid_ion::' line and a retained line has been
\* processed; the generator was called once, for the retained line, and its
\* 18 variants are the whole of both streams.
C14_Witness ==
    /\ cpc = "done" /\ pipeline = "raw" /\ Len(lines) = 2
    /\ StartsWith(lines[1], _invalid_ion_prefix)
    /\ calls = << lines[2] >>
    /\ Len(text_file) = 18 /\ Len(binary_file) = 18

----------------------------------------------------------------------------
(* The digest classifier: generate_results and compare_digests             *)

\* The implementation names of ION_IMPLEMENTATIONS, in order
ION_IMPLEMENTATIONS == << "ion-hash-java", "ion-hash-js", "ion-hash-python" >>

\* Total number of digest lines one run may read
MaxReads == 6

\* '[unable to digest'
UnablePrefix ==
    << "[", "u", "n", "a", "b", "l", "e", " ", "t", "o", " ", "d", "i", "g",
       "e", "s", "t" >>

\* "[unable to digest]"
UnableToDigest == UnablePrefix \o << "]" >>

\* Lines an implementation's digest file may hold
DigestLines ==
    { << "0", "f", " ", "5", "0", "\n" >>,
      << "c", "5", " ", "e", "5", "\n" >>,
      UnableToDigest \o << "\n" >>,
      UnablePrefix \o << ":", " ", "e", "]", "\n" >> }

\* What readline() returns at the end of the file
EndOfFile == << >>

\* The whitespace characters str.rstrip() removes, among those modelled
Whitespace == { " ", "\n", "\t", "\r" }

RECURSIVE Rstrip(_)
\* str.rstrip()
Rstrip(s) ==
    IF s = << >> THEN << >>
    ELSE IF s[Len(s)] \in Whitespace THEN Rstrip(SubSeq(s, 1, Len(s) - 1))
    ELSE s

\* Mutant of NormalizeDigest: the line is recorded as read, the
\* "[unable to digest" case is not folded into one value
NormalizeDigestRaw(line) == Rstrip(line)

\* compare_digests: the digest recorded for the line read from a digest file
NormalizeDigest(line) ==
    LET digest == Rstrip(line) IN
    IF StartsWith(digest, UnablePrefix) THEN UnableToDigest ELSE digest

\* set(digests.values())
DigestSet(dg) == { dg[n] : n \in DOMAIN dg }

\* Mutant of CompareResult: len(digests) is tested instead of len(digest_set)
CompareResultByImplCount(dg) ==
    IF Cardinality(DOMAIN dg) = 0 THEN "no_comparison"
    ELSE IF Cardinality(DOMAIN dg) = 1 THEN "consistent"
    ELSE "inconsistent"

\* compare_digests: the classification of a mapping
CompareResult(dg) ==
    IF Cardinality(DigestSet(dg)) = 0 THEN "no_comparison"
    ELSE IF Cardinality(DigestSet(dg)) = 1 THEN "consistent"
    ELSE "inconsistent"

\* compare_digests: the record appended to digest_comparisons
DigestComparison(value, dg) ==
    LET result  == CompareResult(dg)
        payload == IF result = "no_comparison" THEN EmptyDict
                   ELSE IF result = "consistent"
                   THEN Put(EmptyDict, "digest", CHOOSE d \in DigestSet(dg) : TRUE)
                   ELSE Put(EmptyDict, "digests", dg)
    IN  Put(Put(payload, "result", result), "value", IonDumpsText(value))

\* Mutant of Incr: d[k] = 1 instead of d[k] += 1
IncrAssignsOne(d, k) == Put(d, k, 1)

\* d[k] += 1 on a defaultdict(int)
Incr(d, k) == Put(d, k, (IF k \in DOMAIN d THEN d[k] ELSE 0) + 1)

RECURSIVE SumOver(_, _)
\* sum([cnt for cnt in d.values()]), over the keys ks of d
SumOver(d, ks) ==
    IF ks = {} THEN 0
    ELSE LET k == CHOOSE x \in ks : TRUE IN d[k] + SumOver(d, ks \ {k})

\* Mutant of Summary: a counter is written for each of the three
\* classifications, also for those that never occurred
SummaryAllClasses(cnt) ==
    [k \in {"digest_consistent", "digest_inconsistent", "digest_no_comparison",
            "test_count"} |->
        IF k = "test_count" THEN SumOver(cnt, DOMAIN cnt)
        ELSE LET hit == { r \in DOMAIN cnt : "digest_" \o r = k }
             IN  IF hit = {} THEN 0 ELSE cnt[CHOOSE r \in hit : TRUE]]

\* generate_results: a summary built from a defaultdict of counters
Summary(cnt) ==
    [k \in { "digest_" \o r : r \in DOMAIN cnt } \cup {"test_count"} |->
        IF k = "test_count" THEN SumOver(cnt, DOMAIN cnt)
        ELSE cnt[CHOOSE r \in DOMAIN cnt : "digest_" \o r = k]]

OpenHandle == [open |-> TRUE, pos |-> 0, eof |-> FALSE]

\* The implementation whose digest line compare_digests reads next
NumRead(dg) == Cardinality(DOMAIN dg)

\* The mapping compare_digests is filling: empty when it has just been called
Current(d) == IF pc = "tests" THEN EmptyDict ELSE d

\* "with open(test_file) ... simpleion.loads(content)" succeeds; hash_files = {}
LoadCorpus ==
    /\ pc = "file" /\ fi < Len(test_files)
    /\ fi' = fi + 1
    /\ hash_files' = EmptyDict /\ opened' = 0
    /\ pc' = "open"
    /\ UNCHANGED <<impls, test_files, corpus, ti, line_read, digests,
                   digest_comparisons, file_counters, counters, files, results,
                   error>>
    /\ UNCHANGED <<corpusVars, driverVars>>

\* opening or decoding the corpus file raises
LoadCorpusFails ==
    /\ pc = "file" /\ fi < Len(test_files)
    /\ fi' = fi + 1
    /\ pc' = "raised" /\ error' = "corpus"
    /\ UNCHANGED <<impls, test_files, corpus, ti, opened, hash_files, line_read,
                   digests, digest_comparisons, file_counters, counters, files,
                   results>>
    /\ UNCHANGED <<corpusVars, driverVars>>

\* hash_files[impl.name] = open(test_file + "." + impl.name + ".hashes")
OpenHashFile ==
    /\ pc = "open" /\ opened < Len(impls)
    /\ hash_files' = Put(hash_files, impls[opened + 1], OpenHandle)
    /\ opened' = opened + 1
    /\ UNCHANGED <<pc, impls, test_files, corpus, fi, ti, line_read, digests,
                   digest_comparisons, file_counters, counters, files, results,
                   error>>
    /\ UNCHANGED <<corpusVars, driverVars>>

\* open() of an implementation's digest file raises
OpenHashFileFails ==
    /\ pc = "open" /\ opened < Len(impls)
    /\ pc' = "raised" /\ error' = "open"
    /\ UNCHANGED <<impls, test_files, corpus, fi, ti, opened, hash_files,
                   line_read, digests, digest_comparisons, file_counters,
                   counters, files, results>>
    /\ UNCHANGED <<corpusVars, driverVars>>

\* digest_comparisons = []; file_counters = defaultdict(int)
BeginTests ==
    /\ pc = "open" /\ opened = Len(impls)
    /\ digest_comparisons' = << >> /\ file_counters' = EmptyDict
    /\ ti' = 0
    /\ pc' = "tests"
    /\ UNCHANGED <<impls, test_files, corpus, fi, opened, hash_files, line_read,
                   digests, counters, files, results, error>>
    /\ UNCHANGED <<corpusVars, driverVars>>

\* compare_digests: one iteration of "for impl_name, hash_file in
\* hash_files.items()"; the line is whatever the file holds at the handle's
\* position, and the empty string once the file has ended
ReadDigest ==
    /\ pc \in {"tests", "read"} /\ ti < Len(corpus[fi])
    /\ NumRead(Current(digests)) < Len(impls)
    /\ LET name == impls[NumRead(Current(digests)) + 1]
           h    == hash_files[name]
       IN  \E line \in (IF h.eof THEN {} ELSE DigestLines) \cup {EndOfFile} :
              /\ hash_files' =
                    [hash_files EXCEPT ![name] =
                        IF line = EndOfFile THEN [h EXCEPT !.eof = TRUE]
                        ELSE [h EXCEPT !.pos = h.pos + 1]]
              /\ line_read' = Put(Current(line_read), name, line)
              /\ digests' = Put(Current(digests), name, NormalizeDigest(line))
    /\ pc' = "read"
    /\ UNCHANGED <<impls, test_files, corpus, fi, ti, opened,
                   digest_comparisons, file_counters, counters, files, results,
                   error>>
    /\ UNCHANGED <<corpusVars, driverVars>>

\* hash_file.readline() raises (the line cannot be decoded)
ReadDigestFails ==
    /\ pc \in {"tests", "read"} /\ ti < Len(corpus[fi])
    /\ NumRead(Current(digests)) < Len(impls)
    /\ ~hash_files[impls[NumRead(Current(digests)) + 1]].eof
    /\ line_read' = Current(line_read)
    /\ digests' = Current(digests)
    /\ pc' = "raised" /\ error' = "decode"
    /\ UNCHANGED <<impls, test_files, corpus, fi, ti, opened, hash_files,
                   digest_comparisons, file_counters, counters, files, results>>
    /\ UNCHANGED <<corpusVars, driverVars>>

\* compare_digests after its reading loop, and the two counter updates of
\* generate_results that follow its return
Classify ==
    /\ pc \in {"tests", "read"} /\ ti < Len(corpus[fi])
    /\ NumRead(Current(digests)) = Len(impls)
    /\ LET dg     == Current(digests)
           result == CompareResult(dg)
       IN  /\ digest_comparisons' =
                 Append(digest_comparisons,
                        DigestComparison(corpus[fi][ti + 1], dg))
           /\ file_counters' = Incr(file_counters, result)
           /\ counters' = Incr(counters, result)
           /\ digests' = dg
           /\ line_read' = Current(line_read)
    /\ ti' = ti + 1
    /\ pc' = "tests"
    /\ UNCHANGED <<impls, test_files, corpus, fi, opened, hash_files, files,
                   results, error>>
    /\ UNCHANGED <<corpusVars, driverVars>>

\* generate_results: the file summary, files[test_file], and the closing of
\* the digest handles
FinishFile ==
    /\ pc = "tests" /\ ti = Len(corpus[fi])
    /\ files' = Put(files, test_files[fi],
                    [tests |-> digest_comparisons,
                     file_summary |-> Summary(file_counters)])
    /\ hash_files' = [n \in DOMAIN hash_files |->
                         [hash_files[n] EXCEPT !.open = FALSE]]
    /\ pc' = "file"
    /\ UNCHANGED <<impls, test_files, corpus, fi, ti, opened, line_read,
                   digests, digest_comparisons, file_counters, counters,
                   results, error>>
    /\ UNCHANGED <<corpusVars, driverVars>>

\* generate_results: the grand summary and the write of the results file
WriteResults ==
    /\ pc = "file" /\ fi = Len(test_files)
    /\ results' = [files |-> files, summary |-> Summary(counters)]
    /\ pc' = "done"
    /\ UNCHANGED <<impls, test_files, corpus, fi, ti, opened, hash_files,
                   line_read, digests, digest_comparisons, file_counters,
                   counters, files, error>>
    /\ UNCHANGED <<corpusVars, driverVars>>

\* The corpus builder's variables while only the classifier runs
CorpusIdle ==
    /\ cpc = "idle" /\ pipeline = "none" /\ tests = << >> /\ lines = << >>
    /\ ci = 0 /\ strings = << >> /\ cj = 0 /\ calls = << >>
    /\ text_file = << >> /\ binary_file = << >>

\* Corpus file lists handed to generate_results
TestFileLists ==
    { << "ion_hash_tests.ion" >>,
      << "ion_hash_tests.ion", "ion_hash_tests.10n" >> }

\* The TestValues of the f-th corpus file when it holds k of them
CorpusOf(f, k) == [i \in 1..k |-> IonInt(10 * f + i)]

RECURSIVE TotalLen(_)
TotalLen(seqs) ==
    IF seqs = << >> THEN 0 ELSE Len(Head(seqs)) + TotalLen(Tail(seqs))

ResultsInit ==
    /\ pc = "file"
    /\ impls \in { SubSeq(ION_IMPLEMENTATIONS, 1, n) :
                     n \in 0..Len(ION_IMPLEMENTATIONS) }
    /\ test_files \in TestFileLists
    /\ \E sizes \in [1..Len(test_files) -> 0..MaxReads] :
           corpus = [f \in 1..Len(test_files) |-> CorpusOf(f, sizes[f])]
    /\ TotalLen(corpus) * (IF Len(impls) = 0 THEN 1 ELSE Len(impls)) <= MaxReads
    /\ fi = 0 /\ ti = 0 /\ opened = 0 /\ hash_files = EmptyDict
    /\ line_read = EmptyDict /\ digests = EmptyDict
    /\ digest_comparisons = << >> /\ file_counters = EmptyDict
    /\ counters = EmptyDict /\ files = EmptyDict
    /\ results = EmptyDict /\ error = "none"
    /\ CorpusIdle
    /\ DriverIdle

ResultsNext ==
    \/ LoadCorpus
    \/ LoadCorpusFails
    \/ OpenHashFile
    \/ OpenHashFileFails
    \/ BeginTests
    \/ ReadDigest
    \/ ReadDigestFails
    \/ Classify
    \/ FinishFile
    \/ WriteResults

SpecResults == ResultsInit /\ [][ResultsNext]_vars

----------------------------------------------------------------------------
(* Properties of the digest classifier                                     *)

\* compare_digests has just returned for the TestValue at ordinal ti
JustClassified == pc = "tests" /\ ti >= 1

\* The record compare_digests appended last
LastRecord == digest_comparisons[Len(digest_comparisons)]

\* d.get(k, 0)
Get(d, k) == IF k \in DOMAIN d THEN d[k] ELSE 0

\* C1: the record of a TestValue is decided by the number of distinct digests
\* in its mapping: none gives 'no_comparison' without payload, one gives
\* 'consistent' with that digest under 'digest', several give 'inconsistent'
\* with the digest of every implementation under 'digests'.
C1_ClassifiedByDistinctDigests ==
    JustClassified =>
        LET D   == { digests[n] : n \in DOMAIN digests }
            rec == LastRecord
        IN  /\ DOMAIN digests = { impls[k] : k \in 1..Len(impls) }
            /\ rec["value"] = IonDumpsText(corpus[fi][ti])
            /\ Cardinality(D) = 0 =>
                   /\ rec["result"] = "no_comparison"
                   /\ DOMAIN rec = {"result", "value"}
            /\ Cardinality(D) = 1 =>
                   /\ rec["result"] = "consistent"
                   /\ DOMAIN rec = {"digest", "result", "value"}
                   /\ D = { rec["digest"] }
            /\ Cardinality(D) > 1 =>
                   /\ rec["result"] = "inconsistent"
                   /\ DOMAIN rec = {"digests", "result", "value"}
                   /\ DOMAIN rec["digests"] = { impls[k] : k \in 1..Len(impls) }
                   /\ \A n \in DOMAIN digests : rec["digests"][n] = digests[n]

\* C1 witness: three implementations, two of them agreeing, were classified
\* 'inconsistent' with all three digests recorded.
C1_Witness ==
    /\ JustClassified /\ Len(impls) = 3
    /\ Cardinality({ digests[n] : n \in DOMAIN digests }) = 2
    /\ LastRecord["result"] = "inconsistent"
    /\ Cardinality(DOMAIN LastRecord["digests"]) = 3

\* C2: a digest file that ends before the corpus does is fatal: as soon as a
\* read for a TestValue finds the file ended, generate_results has failed; no
\* record is built from the missing line and no results file is written.
C2_ShortDigestFileIsFatal ==
    (\E n \in DOMAIN hash_files : hash_files[n].eof) =>
        /\ pc = "raised"
        /\ results = EmptyDict

\* C6: when generate_results has returned or raised, every digest-file handle
\* it opened is closed.
C6_HandlesClosedOnEveryExit ==
    pc \in {"done", "raised"} =>
        \A n \in DOMAIN hash_files : ~hash_files[n].open

\* C7: a line beginning with '[unable to digest' is recorded as the one value
\* '[unable to digest]' and compared like any digest: all implementations
\* unable gives 'consistent' with that digest, some unable and some not gives
\* 'inconsistent' with the sentinel recorded for those that reported it.
C7_UnableToDigestIsAValue ==
    (JustClassified /\ Len(impls) >= 1) =>
        LET all    == DOMAIN line_read
            unable == { n \in all : StartsWith(line_read[n], UnablePrefix) }
            rec    == LastRecord
        IN  /\ all = { impls[k] : k \in 1..Len(impls) }
            /\ \A n \in unable : digests[n] = UnableToDigest
            /\ unable = all =>
                   /\ rec["result"] = "consistent"
                   /\ rec["digest"] = UnableToDigest
            /\ (unable # {} /\ unable # all) =>
                   /\ rec["result"] = "inconsistent"
                   /\ \A n \in unable : rec["digests"][n] = UnableToDigest

\* C7 witness: two implementations reported different lines that both begin
\* with '[unable to digest', and the record is 'consistent'.
C7_Witness ==
    /\ JustClassified /\ Len(impls) = 2
    /\ line_read[impls[1]] # line_read[impls[2]]
    /\ \A n \in DOMAIN line_read : StartsWith(line_read[n], UnablePrefix)
    /\ LastRecord["result"] = "consistent"

RECURSIVE CountClass(_, _)
\* Number of records of a list classified c
CountClass(recs, c) ==
    IF recs = << >> THEN 0
    ELSE (IF Head(recs)["result"] = c THEN 1 ELSE 0) + CountClass(Tail(recs), c)

Classes == {"consistent", "inconsistent", "no_comparison"}

\* C8: without implementations every record of the report is 'no_comparison',
\* each file has one record per TestValue, and the file summaries and the
\* grand summary hold no digest_consistent and no digest_inconsistent key,
\* digest_no_comparison (absent when the count is 0) being the number of
\* TestValues.
C8_NoImplementations ==
    (pc = "done" /\ impls = << >>) =>
        /\ \A f \in 1..Len(test_files) :
             LET rep == results["files"][test_files[f]] IN
             /\ Len(rep["tests"]) = Len(corpus[f])
             /\ \A k \in 1..Len(rep["tests"]) :
                    rep["tests"][k]["result"] = "no_comparison"
             /\ DOMAIN rep["file_summary"]
                    \subseteq {"digest_no_comparison", "test_count"}
             /\ Get(rep["file_summary"], "digest_no_comparison") = Len(corpus[f])
        /\ DOMAIN results["summary"] \subseteq {"digest_no_comparison", "test_count"}
        /\ Get(results["summary"], "digest_no_comparison") = TotalLen(corpus)
        /\ results["summary"]["test_count"] = TotalLen(corpus)

\* C8 witness: a report over two files with TestValues in both and no
\* implementation.
C8_Witness ==
    /\ pc = "done" /\ impls = << >> /\ Len(test_files) = 2
    /\ Len(corpus[1]) >= 1 /\ Len(corpus[2]) >= 2
    /\ results["summary"]["digest_no_comparison"] = TotalLen(corpus)

RECURSIVE SumFiles(_, _, _)
\* Sum of counter key over the file summaries of the first f files
SumFiles(rep, f, key) ==
    IF f = 0 THEN 0
    ELSE Get(rep[test_files[f]]["file_summary"], key) + SumFiles(rep, f - 1, key)

\* C9: in the report written, each file has one record per TestValue in corpus
\* order, each file counter digest_<c> is the number of that file's records
\* classified c, each file's test_count is its number of TestValues, and each
\* grand-summary counter is the sum of the file counters; when all that was
\* read for a file is one digest, digest_consistent is the number of its
\* TestValues.
C9_CountersExact ==
    pc = "done" =>
        LET rep == results["files"]
            keys == { "digest_" \o c : c \in Classes } \cup {"test_count"}
        IN  /\ DOMAIN rep = { test_files[f] : f \in 1..Len(test_files) }
            /\ \A f \in 1..Len(test_files) :
                 LET recs == rep[test_files[f]]["tests"]
                     fs   == rep[test_files[f]]["file_summary"]
                 IN  /\ Len(recs) = Len(corpus[f])
                     /\ \A k \in 1..Len(recs) :
                            recs[k]["value"] = IonDumpsText(corpus[f][k])
                     /\ \A c \in Classes :
                            Get(fs, "digest_" \o c) = CountClass(recs, c)
                     /\ DOMAIN fs \subseteq keys
                     /\ fs["test_count"] = Len(corpus[f])
                     /\ (/\ Len(recs) >= 1
                         /\ \A k \in 1..Len(recs) :
                               /\ "digest" \in DOMAIN recs[k]
                               /\ recs[k]["digest"] = recs[1]["digest"])
                        => fs["digest_consistent"] = Len(corpus[f])
            /\ DOMAIN results["summary"] \subseteq keys
            /\ \A key \in keys :
                   Get(results["summary"], key)
                       = SumFiles(rep, Len(test_files), key)

\* C9 witness: a report over two files in which one class was counted twice
\* in one file and the grand summary adds counts of both files.
C9_Witness ==
    /\ pc = "done" /\ Len(test_files) = 2 /\ Len(impls) = 1
    /\ Len(corpus[1]) = 2 /\ Len(corpus[2]) >= 1
    /\ results["files"][test_files[1]]["file_summary"]["digest_consistent"] = 2
    /\ Get(results["summary"], "digest_consistent") >= 3

\* C13: digest files are read in lockstep: once i TestValues of the corpus
\* file are classified every implementation's handle has consumed exactly i
\* lines; while TestValue i + 1 is being read, the handles already read stand
\* at line i + 1 and the others still at line i; and the digest taken for a
\* TestValue is a line of the implementation's file.
C13_LockstepReading ==
    pc \in {"tests", "read"} =>
        \A k \in 1..Len(impls) :
            LET name == impls[k]
                read == pc = "read" /\ name \in DOMAIN digests
            IN  /\ hash_files[name].pos = ti + (IF read THEN 1 ELSE 0)
                /\ read => line_read[name] # EndOfFile

----------------------------------------------------------------------------
(* The command line driver: ion_hash_test_driver                            *)

\* Paths a git executable may be looked up under
GitPaths == {"git", "/opt/git"}

\* Values of the <test_file> arguments, as the set generate_tests tests
\* membership and emptiness on
TestFileArgs ==
    { {}, {"ion_hash_test.ion"}, {"big_list_of_naughty_strings.txt"},
      {"ion_hash_test.ion", "big_list_of_naughty_strings.txt"},
      {"ion_hash_tests.ion"} }

\* The command lines docopt accepts: --help alone, --list alone, or a run
Arguments ==
    { [help |-> TRUE, list |-> FALSE, git |-> "None", test_file |-> {}],
      [help |-> FALSE, list |-> TRUE, git |-> "None", test_file |-> {}] }
    \cup [help : {FALSE}, list : {FALSE}, git : {"None", "/opt/git"},
          test_file : TestFileArgs]

\* Contents of ion_hash_tests.ion in the installed test source: missing, one
\* inline value, an inline value with literal bytes (the int 1), and literal
\* bytes cut short inside a symbol
SourceTests ==
    { Absent,
      Present(<< [f \in {"ion"} |-> IonInt(7)] >>),
      Present(<< [f \in {"ion", "10n"} |->
                     IF f = "ion" THEN IonInt(7)
                     ELSE IonVersionMarker \o << 33, 1 >>] >>),
      Present(<< [f \in {"10n"} |-> IonVersionMarker \o << 113 >>] >>) }

\* Contents of big_list_of_naughty_strings.txt in the installed test source
SourceLines ==
    { Absent,
      Present(<< << "a" >> >>),
      Present(<< << "#", "a" >>, SidZero >>) }

\* What an implementation prints for a corpus file of n values: a digest per
\* value, a failure notice per value, or digests for all values but the last
ImplBehaviours == {"digest", "unable", "short"}

ImplOutput(behaviour, n) ==
    LET digest == << "0", "f", " ", "5", "0", "\n" >>
        unable == UnablePrefix \o << ":", " ", "e", "]", "\n" >>
    IN  CASE behaviour = "digest" -> [k \in 1..n |-> digest]
          [] behaviour = "unable" -> [k \in 1..n |-> unable]
          [] behaviour = "short"  ->
                 [k \in 1..(IF n = 0 THEN 0 ELSE n - 1) |-> digest]

\* Mutant of ToolRuns: the failure of check_call is swallowed
ToolRunsAlways(path) == TRUE

\* check_call([path, '--help']) returns zero
ToolRuns(path) == path \in executables

\* check_tool_dependencies: "if path: TOOL_DEPENDENCIES[name] = path"
OverridePaths(deps, args) ==
    [name \in DOMAIN deps |->
        IF name = "git" /\ args.git # "None" THEN args.git ELSE deps[name]]

\* The names of the files each pipeline writes and returns, relative to
\* out_dir (os.path.join(output_root, "build"))
StructuredFiles == << "ion_hash_tests.ion", "ion_hash_tests.10n" >>
RawFiles ==
    << "big_list_of_naughty_strings.ion", "big_list_of_naughty_strings.10n" >>

\* generate_tests: whether each pipeline is run for the <test_file> arguments
RunsStructured(files_arg) == "ion_hash_test.ion" \in files_arg \/ files_arg = {}
RunsRaw(files_arg) ==
    "big_list_of_naughty_strings.txt" \in files_arg \/ files_arg = {}

\* generate_tests: the names of the corpus files it writes and returns
generate_tests(files_arg) ==
    (IF "ion_hash_test.ion" \in files_arg THEN StructuredFiles ELSE << >>)
    \o (IF "big_list_of_naughty_strings.txt" \in files_arg
        THEN RawFiles ELSE << >>)
    \o (IF files_arg = {} THEN StructuredFiles \o RawFiles ELSE << >>)

RECURSIVE StructuredTextUpTo(_, _)
\* generate_tests_ion_hash_tests: the text stream after k definitions
StructuredTextUpTo(defs, k) ==
    IF k = 0 THEN << >>
    ELSE StructuredTextUpTo(defs, k - 1) \o StructuredText(k, defs[k])

RECURSIVE StructuredBinaryUpTo(_, _)
\* generate_tests_ion_hash_tests: the binary stream after k definitions
StructuredBinaryUpTo(defs, k) ==
    IF k = 0 THEN << >>
    ELSE StructuredBinaryUpTo(defs, k - 1) \o StructuredBinary(k, defs[k])

RECURSIVE RawTextOfLine(_, _, _)
\* the text written for the first j variants of seed line i
RawTextOfLine(i, variants, j) ==
    IF j = 0 THEN << >>
    ELSE RawTextOfLine(i, variants, j - 1) \o RawText(<< i, j >>, variants[j])

RECURSIVE RawBinaryOfLine(_, _, _)
\* the binary written for the first j variants of seed line i
RawBinaryOfLine(i, variants, j) ==
    IF j = 0 THEN << >>
    ELSE RawBinaryOfLine(i, variants, j - 1)
         \o RawBinary(<< i, j >>, variants[j])

\* test_strings_for(line) for a retained line, nothing for a skipped one
VariantsOf(line) == IF SkipLine(line) THEN << >> ELSE test_strings_for(line)

RECURSIVE RawTextUpTo(_, _)
\* generate_tests_big_list_of_naughty_strings: the text stream after k lines
RawTextUpTo(seeds, k) ==
    IF k = 0 THEN << >>
    ELSE LET variants == VariantsOf(seeds[k]) IN
         RawTextUpTo(seeds, k - 1) \o RawTextOfLine(k, variants, Len(variants))

RECURSIVE RawBinaryUpTo(_, _)
\* generate_tests_big_list_of_naughty_strings: the binary stream after k lines
RawBinaryUpTo(seeds, k) ==
    IF k = 0 THEN << >>
    ELSE LET variants == VariantsOf(seeds[k]) IN
         RawBinaryUpTo(seeds, k - 1)
         \o RawBinaryOfLine(k, variants, Len(variants))

\* The pipelines' variables when generate_tests_ion_hash_tests returns
StructuredFrame(defs) ==
    [cpc |-> "done", pipeline |-> "structured", tests |-> defs,
     lines |-> << >>, ci |-> Len(defs), strings |-> << >>, cj |-> 0,
     calls |-> << >>,
     text_file |-> StructuredTextUpTo(defs, Len(defs)),
     binary_file |-> StructuredBinaryUpTo(defs, Len(defs))]

\* The pipelines' variables when generate_tests_big_list_of_naughty_strings
\* returns
RawFrame(seeds) ==
    LET last == IF seeds = << >> THEN << >> ELSE VariantsOf(seeds[Len(seeds)])
    IN  [cpc |-> "done", pipeline |-> "raw", tests |-> << >>,
         lines |-> seeds, ci |-> Len(seeds), strings |-> last,
         cj |-> Len(last),
         calls |-> SelectSeq(seeds, LAMBDA l : ~SkipLine(l)),
         text_file |-> RawTextUpTo(seeds, Len(seeds)),
         binary_file |-> RawBinaryUpTo(seeds, Len(seeds))]

\* The pipelines' variables when a pipeline raises on its missing source
\* file: its two output files are open and empty
RaisedFrame(name) ==
    [cpc |-> "raised", pipeline |-> name, tests |-> << >>, lines |-> << >>,
     ci |-> 0, strings |-> << >>, cj |-> 0, calls |-> << >>,
     text_file |-> << >>, binary_file |-> << >>]

\* The pipelines' variables as a frame
CorpusFrame ==
    [cpc |-> cpc, pipeline |-> pipeline, tests |-> tests, lines |-> lines,
     ci |-> ci, strings |-> strings, cj |-> cj, calls |-> calls,
     text_file |-> text_file, binary_file |-> binary_file]

\* The pipelines' variables take the values of a frame
SetCorpus(frame) ==
    /\ cpc' = frame.cpc /\ pipeline' = frame.pipeline
    /\ tests' = frame.tests /\ lines' = frame.lines
    /\ ci' = frame.ci /\ strings' = frame.strings /\ cj' = frame.cj
    /\ calls' = frame.calls
    /\ text_file' = frame.text_file /\ binary_file' = frame.binary_file

\* The two files a pipeline leaves behind
FilesOf(names, frame) ==
    Put(Put(EmptyDict, names[1], frame.text_file), names[2], frame.binary_file)

\* d1 updated with every entry of d2
Merge(d1, d2) ==
    [k \in DOMAIN d1 \cup DOMAIN d2 |-> IF k \in DOMAIN d2 THEN d2[k] ELSE d1[k]]

\* test_file.endswith(".10n")
IsBinaryName(name) ==
    name \in {"ion_hash_tests.10n", "big_list_of_naughty_strings.10n"}

\* simpleion.loads(content, single_value=False) of a written corpus file
LoadFile(disk, name) ==
    IF IsBinaryName(name) THEN IonLoadsBinary(disk[name], << >>)
    ELSE IonLoadsText(disk[name], << >>)

\* hash_file.readline() on a handle over the lines of its file
ReadLine(h, content) ==
    IF h.pos < Len(content)
    THEN [line |-> content[h.pos + 1], handle |-> [h EXCEPT !.pos = h.pos + 1]]
    ELSE [line |-> EndOfFile, handle |-> [h EXCEPT !.eof = TRUE]]

\* compare_digests and the two counter updates that follow its return
CompareStep(st, value, names, contents) ==
    LET nameset == { names[k] : k \in 1..Len(names) }
        reads   == [n \in nameset |-> ReadLine(st.hash_files[n], contents[n])]
        dg      == [n \in nameset |-> NormalizeDigest(reads[n].line)]
        result  == CompareResult(dg)
    IN  [st EXCEPT
            !.hash_files = [n \in nameset |-> reads[n].handle],
            !.line_read = [n \in nameset |-> reads[n].line],
            !.digests = dg,
            !.digest_comparisons =
                Append(st.digest_comparisons, DigestComparison(value, dg)),
            !.file_counters = Incr(st.file_counters, result),
            !.counters = Incr(st.counters, result),
            !.ti = st.ti + 1]

RECURSIVE CompareFrom(_, _, _, _, _)
\* "for test in tests" from the k-th TestValue on
CompareFrom(st, values, k, names, contents) ==
    IF k > Len(values) THEN st
    ELSE CompareFrom(CompareStep(st, values[k], names, contents),
                     values, k + 1, names, contents)

\* generate_results before its loop over the test files
ResultsStart(names, file_names) ==
    [pc |-> "file", impls |-> names, test_files |-> file_names,
     corpus |-> [f \in 1..Len(file_names) |-> << >>],
     fi |-> 0, ti |-> 0, opened |-> 0, hash_files |-> EmptyDict,
     line_read |-> EmptyDict, digests |-> EmptyDict,
     digest_comparisons |-> << >>, file_counters |-> EmptyDict,
     counters |-> EmptyDict, files |-> EmptyDict, results |-> EmptyDict,
     error |-> "none"]

\* one iteration of "for test_file in test_files"; a corpus file that cannot
\* be decoded ends generate_results
ResultsFile(st, disk, digest_files) ==
    LET name    == st.test_files[st.fi + 1]
        nameset == { st.impls[k] : k \in 1..Len(st.impls) }
        Opened(values) ==
            [st EXCEPT
                !.fi = st.fi + 1,
                !.corpus[st.fi + 1] = values,
                !.hash_files = [n \in nameset |-> OpenHandle],
                !.opened = Len(st.impls),
                !.digest_comparisons = << >>,
                !.file_counters = EmptyDict,
                !.ti = 0]
        Closed(after) ==
            [after EXCEPT
                !.files = Put(after.files, name,
                              [tests |-> after.digest_comparisons,
                               file_summary |-> Summary(after.file_counters)]),
                !.hash_files = [n \in nameset |->
                                   [after.hash_files[n] EXCEPT !.open = FALSE]]]
        Compared(loaded) ==
            IF ~loaded.ok
            THEN [st EXCEPT !.fi = st.fi + 1, !.pc = "raised",
                            !.error = "corpus"]
            ELSE Closed(CompareFrom(Opened(loaded.values), loaded.values, 1,
                                    st.impls,
                                    [n \in nameset |-> digest_files[n][name]]))
    IN  Compared(LoadFile(disk, name))

RECURSIVE ResultsFrom(_, _, _)
\* generate_results from the state st on: the remaining files, then the grand
\* summary and the write of the results file
ResultsFrom(st, disk, digest_files) ==
    IF st.pc = "raised" THEN st
    ELSE IF st.fi = Len(st.test_files)
    THEN [st EXCEPT !.results = [files |-> st.files,
                                 summary |-> Summary(st.counters)],
                    !.pc = "done"]
    ELSE ResultsFrom(ResultsFile(st, disk, digest_files), disk, digest_files)

\* The classifier's variables take the values of a frame
SetResults(frame) ==
    /\ pc' = frame.pc /\ impls' = frame.impls
    /\ test_files' = frame.test_files /\ corpus' = frame.corpus
    /\ fi' = frame.fi /\ ti' = frame.ti /\ opened' = frame.opened
    /\ hash_files' = frame.hash_files /\ line_read' = frame.line_read
    /\ digests' = frame.digests
    /\ digest_comparisons' = frame.digest_comparisons
    /\ file_counters' = frame.file_counters /\ counters' = frame.counters
    /\ files' = frame.files /\ results' = frame.results
    /\ error' = frame.error

\* "if arguments['--help']: print(__doc__)"
ShowHelp ==
    /\ dpc = "start" /\ arguments.help
    /\ trace' = Append(trace, "help")
    /\ dpc' = "done" /\ outcome' = "ok"
    /\ UNCHANGED <<arguments, executables, output_root, tool_dependencies,
                   implementations, installed, di, test_source, written,
                   hashes, generated>>
    /\ UNCHANGED <<corpusVars, resultVars>>

\* "elif arguments['--list']": the names of ION_BUILDS are printed
ListImplementations ==
    /\ dpc = "start" /\ ~arguments.help /\ arguments.list
    /\ trace' = Append(trace, "list")
    /\ dpc' = "done" /\ outcome' = "ok"
    /\ UNCHANGED <<arguments, executables, output_root, tool_dependencies,
                   implementations, installed, di, test_source, written,
                   hashes, generated>>
    /\ UNCHANGED <<corpusVars, resultVars>>

\* the else branch up to the tool check: os.makedirs(output_root) and
\* parse_implementations, which builds the objects and installs nothing
ParseImplementations ==
    /\ dpc = "start" /\ ~arguments.help /\ ~arguments.list
    /\ output_root' = TRUE
    /\ implementations' = ION_IMPLEMENTATIONS
    /\ trace' = Append(trace, "parse")
    /\ dpc' = "check"
    /\ UNCHANGED <<arguments, executables, tool_dependencies, installed, di,
                   test_source, written, hashes, generated, outcome>>
    /\ UNCHANGED <<corpusVars, resultVars>>

\* check_tool_dependencies returns: every tool answered --help
CheckToolDependencies ==
    /\ dpc = "check"
    /\ tool_dependencies' = OverridePaths(tool_dependencies, arguments)
    /\ \A name \in DOMAIN tool_dependencies : ToolRuns(tool_dependencies'[name])
    /\ trace' = Append(trace, "check")
    /\ dpc' = "install" /\ di' = 0
    /\ UNCHANGED <<arguments, executables, output_root, implementations,
                   installed, test_source, written, hashes, generated,
                   outcome>>
    /\ UNCHANGED <<corpusVars, resultVars>>

\* check_tool_dependencies raises ValueError(name + " not found. ...")
CheckToolDependenciesFails ==
    /\ dpc = "check"
    /\ tool_dependencies' = OverridePaths(tool_dependencies, arguments)
    /\ \E name \in DOMAIN tool_dependencies : ~ToolRuns(tool_dependencies'[name])
    /\ dpc' = "raised" /\ outcome' = "ValueError: git not found"
    /\ UNCHANGED <<arguments, executables, output_root, implementations,
                   installed, di, test_source, written, hashes, generated,
                   trace>>
    /\ UNCHANGED <<corpusVars, resultVars>>

\* "for implementation in implementations: implementation.install()"
Install ==
    /\ dpc = "install" /\ di < Len(implementations)
    /\ installed' = installed \cup {implementations[di + 1]}
    /\ trace' = Append(trace, "install")
    /\ di' = di + 1
    /\ UNCHANGED <<dpc, arguments, executables, output_root, tool_dependencies,
                   implementations, test_source, written, hashes, generated,
                   outcome>>
    /\ UNCHANGED <<corpusVars, resultVars>>

\* IonResource(output_root, 'ion-hash-test', ...).install()
InstallTestSource ==
    /\ dpc = "install" /\ di = Len(implementations)
    /\ installed' = installed \cup {"ion-hash-test"}
    /\ trace' = Append(trace, "install")
    /\ dpc' = "generate"
    /\ UNCHANGED <<arguments, executables, output_root, tool_dependencies,
                   implementations, di, test_source, written, hashes,
                   generated, outcome>>
    /\ UNCHANGED <<corpusVars, resultVars>>

\* install() raises: the clone, the checkout or the build command fails
InstallFails ==
    /\ dpc = "install"
    /\ trace' = Append(trace, "install")
    /\ dpc' = "raised" /\ outcome' = "CalledProcessError"
    /\ UNCHANGED <<arguments, executables, output_root, tool_dependencies,
                   implementations, installed, di, test_source, written,
                   hashes, generated>>
    /\ UNCHANGED <<corpusVars, resultVars>>

\* test_files = generate_tests(...): the selected pipelines run, structured
\* first, and write their files; sys.exit(1) when no file is returned
GenerateTests ==
    /\ dpc = "generate"
    /\ RunsStructured(arguments.test_file) => test_source.tests.present
    /\ RunsRaw(arguments.test_file) => test_source.lines.present
    /\ LET Wrote(structured, raw) ==
               /\ written' =
                     Merge(IF RunsStructured(arguments.test_file)
                           THEN FilesOf(StructuredFiles, structured)
                           ELSE EmptyDict,
                           IF RunsRaw(arguments.test_file)
                           THEN FilesOf(RawFiles, raw) ELSE EmptyDict)
               /\ SetCorpus(IF RunsRaw(arguments.test_file) THEN raw
                            ELSE IF RunsStructured(arguments.test_file)
                            THEN structured
                            ELSE CorpusFrame)
       IN  Wrote(StructuredFrame(test_source.tests.content),
                 RawFrame(test_source.lines.content))
    /\ generated' = generate_tests(arguments.test_file)
    /\ trace' = Append(trace, "generate")
    /\ IF Len(generated') = 0
       THEN dpc' = "exit" /\ outcome' = "exit 1" /\ di' = di
       ELSE dpc' = "execute" /\ outcome' = outcome /\ di' = 0
    /\ UNCHANGED <<arguments, executables, output_root, tool_dependencies,
                   implementations, installed, test_source, hashes>>
    /\ UNCHANGED resultVars

\* generate_tests raises FileNotFoundError: a selected pipeline has opened its
\* two output files and finds its source file missing
GenerateTestsFails ==
    /\ dpc = "generate"
    /\ \/ RunsStructured(arguments.test_file) /\ ~test_source.tests.present
       \/ RunsRaw(arguments.test_file) /\ ~test_source.lines.present
    /\ IF RunsStructured(arguments.test_file) /\ ~test_source.tests.present
       THEN /\ written' = FilesOf(StructuredFiles, RaisedFrame("structured"))
            /\ SetCorpus(RaisedFrame("structured"))
       ELSE /\ written' =
                  Merge(IF RunsStructured(arguments.test_file)
                        THEN FilesOf(StructuredFiles,
                                     StructuredFrame(test_source.tests.content))
                        ELSE EmptyDict,
                        FilesOf(RawFiles, RaisedFrame("raw")))
            /\ SetCorpus(RaisedFrame("raw"))
    /\ trace' = Append(trace, "generate")
    /\ dpc' = "raised" /\ outcome' = "FileNotFoundError"
    /\ UNCHANGED <<arguments, executables, output_root, tool_dependencies,
                   implementations, installed, di, test_source, hashes,
                   generated>>
    /\ UNCHANGED resultVars

\* "for impl in implementations: impl.execute(test_files, "md5")": the
\* implementation's output for every corpus file is written to its .hashes file
Execute ==
    /\ dpc = "execute" /\ di < Len(implementations)
    /\ implementations[di + 1] \in installed
    /\ \E behaviour \in ImplBehaviours :
          hashes' = Put(hashes, implementations[di + 1],
                        [name \in DOMAIN written |->
                            ImplOutput(behaviour, Len(written[name]))])
    /\ trace' = Append(trace, "execute")
    /\ di' = di + 1
    /\ UNCHANGED <<dpc, arguments, executables, output_root, tool_dependencies,
                   implementations, installed, test_source, written, generated,
                   outcome>>
    /\ UNCHANGED <<corpusVars, resultVars>>

\* execute raises ValueError('Executable for %s does not exist.')
ExecuteFails ==
    /\ dpc = "execute" /\ di < Len(implementations)
    /\ trace' = Append(trace, "execute")
    /\ dpc' = "raised" /\ outcome' = "ValueError: no executable"
    /\ UNCHANGED <<arguments, executables, output_root, tool_dependencies,
                   implementations, installed, di, test_source, written,
                   hashes, generated>>
    /\ UNCHANGED <<corpusVars, resultVars>>

\* generate_results(implementations, test_files, results_file) returns: every
\* TestValue of every generated file is classified and the report written
GenerateResults ==
    /\ dpc = "execute" /\ di = Len(implementations)
    /\ LET Report(final) == final.pc = "done" /\ SetResults(final)
       IN  Report(ResultsFrom(ResultsStart(implementations, generated),
                              written, hashes))
    /\ trace' = Append(trace, "compare")
    /\ dpc' = "done" /\ outcome' = "ok"
    /\ UNCHANGED <<arguments, executables, output_root, tool_dependencies,
                   implementations, installed, di, test_source, written,
                   hashes, generated>>
    /\ UNCHANGED corpusVars

\* generate_results raises: a generated corpus file cannot be decoded
GenerateResultsFails ==
    /\ dpc = "execute" /\ di = Len(implementations)
    /\ LET Report(final) == final.pc = "raised" /\ SetResults(final)
       IN  Report(ResultsFrom(ResultsStart(implementations, generated),
                              written, hashes))
    /\ trace' = Append(trace, "compare")
    /\ dpc' = "raised" /\ outcome' = "IonException"
    /\ UNCHANGED <<arguments, executables, output_root, tool_dependencies,
                   implementations, installed, di, test_source, written,
                   hashes, generated>>
    /\ UNCHANGED corpusVars

\* ion_hash_test_driver(docopt(__doc__)) is entered
DriverInit ==
    /\ dpc = "start"
    /\ arguments \in Arguments
    /\ executables \in SUBSET GitPaths
    /\ output_root \in BOOLEAN
    /\ tool_dependencies = TOOL_DEPENDENCIES
    /\ implementations = << >> /\ installed = {} /\ di = 0
    /\ test_source \in [tests : SourceTests, lines : SourceLines]
    /\ written = EmptyDict /\ hashes = EmptyDict
    /\ generated = << >> /\ trace = << >> /\ outcome = "running"
    /\ CorpusIdle
    /\ ResultsIdle

DriverNext ==
    \/ ShowHelp
    \/ ListImplementations
    \/ ParseImplementations
    \/ CheckToolDependencies
    \/ CheckToolDependenciesFails
    \/ Install
    \/ InstallTestSource
    \/ InstallFails
    \/ GenerateTests
    \/ GenerateTestsFails
    \/ Execute
    \/ ExecuteFails
    \/ GenerateResults
    \/ GenerateResultsFails

SpecDriver == DriverInit /\ [][DriverNext]_vars

----------------------------------------------------------------------------
(* Properties of the driver                                                *)

\* The steps the tool check has to precede
Work == {"install", "generate", "execute", "compare"}

\* The path the run looks git up under, and whether nothing runs there
GitMissing ==
    (IF arguments.git # "None" THEN arguments.git ELSE "git") \notin executables

\* C12: in every run that is neither --help nor --list, the tool check has
\* completed before any installation, corpus generation, execution or digest
\* comparison starts; and when git is missing none of those steps ever
\* happens and the run, once over, has ended with the "not found" error.
C12_ToolCheckPrecedesWork ==
    (dpc # "idle" /\ ~arguments.help /\ ~arguments.list) =>
        /\ \A k \in 1..Len(trace) :
               trace[k] \in Work => \E j \in 1..(k - 1) : trace[j] = "check"
        /\ GitMissing =>
               /\ \A k \in 1..Len(trace) : trace[k] \notin Work
               /\ installed = {} /\ generated = << >>
               /\ written = EmptyDict /\ hashes = EmptyDict
               /\ results = EmptyDict
               /\ dpc \in {"done", "exit", "raised"} =>
                      (dpc = "raised" /\ outcome = "ValueError: git not found")

\* C12 witness: a run whose git was given by --git has checked it, installed,
\* generated, executed and compared, in that order.
C12_Witness ==
    /\ dpc = "done" /\ arguments.git = "/opt/git" /\ outcome = "ok"
    /\ DOMAIN written # {} /\ DOMAIN hashes # {} /\ results # EmptyDict
    /\ trace = << "parse", "check", "install", "install", "install", "install",
                  "generate", "execute", "execute", "execute", "compare" >>

====
